---- MODULE Spec2Model ----
(***************************************************************************)
(* Model of chalicelib/helpers.py of the MRE event control plane:          *)
(* add_or_update_medialive_output_group, create_cloudwatch_alarm_for_      *)
(* channel, delete_medialive_output_group, delete_cloudwatch_alarm_for_    *)
(* channel and notify_event_deletion_queue, each as a sequence of AWS      *)
(* calls (one action per call) around the local list manipulation.         *)
(*                                                                         *)
(* Python dictionaries are records, lists are sequences (1-based), an      *)
(* absent key is a field missing from the record's DOMAIN.  A DynamoDB     *)
(* Number (decimal.Decimal) is an integer count of tenths.                 *)
(***************************************************************************)
EXTENDS Integers, Sequences, FiniteSets, TLC

VARIABLES
    medialive,        \* channel_id -> channel description held by MediaLive
    alarms,           \* the CloudWatch alarms, a set of alarm records
    queue,            \* the messages in the SQS queue, oldest first
    inv,              \* worker -> the invocation it is running
    last_alarm_call   \* channel_id -> last CloudWatch call that succeeded for it

vars == <<medialive, alarms, queue, inv, last_alarm_call>>

\* ------------------------------------------------------------ environment

MEDIASOURCE_S3_BUCKET == "bkt"
SQS_QUEUE_URL == "sqs://mre-event-deletion"

\* Values uuid.uuid4().hex may take.
UuidHex == {"0a", "0b"}

\* The profile table: Name -> Item.  ChunkSize is a Decimal, in tenths.
profile_table ==
    [n \in {"p1", "p2"} |->
        [Name |-> n, ChunkSize |-> IF n = "p1" THEN 100 ELSE 55]]

\* int(Decimal): truncation toward zero.
int(d) == IF d >= 0 THEN d \div 10 ELSE -((-d) \div 10)

\* The f-string of the MRE destination Url.
mre_url(name, program, profile, channel_id) ==
    "s3ssl://" \o MEDIASOURCE_S3_BUCKET \o "/" \o channel_id \o "/" \o program
        \o "/" \o name \o "/" \o profile \o "/" \o program \o "_" \o name

\* ------------------------------------------------------------ list scans

\* Index of the first element a `for ... if ...: break` loop stops at, 0 if none.
RECURSIVE first_mre_destination(_, _)
first_mre_destination(destinations, index) ==
    IF index > Len(destinations) THEN 0
    ELSE IF destinations[index].Id = "awsmre" THEN index
    ELSE first_mre_destination(destinations, index + 1)

is_mre_output_group(output_group) ==
    /\ "HlsGroupSettings" \in DOMAIN output_group.OutputGroupSettings
    /\ output_group.OutputGroupSettings.HlsGroupSettings.Destination.DestinationRefId
           = "awsmre"

RECURSIVE first_mre_output_group(_, _)
first_mre_output_group(output_groups, index) ==
    IF index > Len(output_groups) THEN 0
    ELSE IF is_mre_output_group(output_groups[index]) THEN index
    ELSE first_mre_output_group(output_groups, index + 1)

RECURSIVE first_mre_video_description(_, _)
first_mre_video_description(video_descriptions, index) ==
    IF index > Len(video_descriptions) THEN 0
    ELSE IF video_descriptions[index].Name = "video_awsmre" THEN index
    ELSE first_mre_video_description(video_descriptions, index + 1)

\* Mutant of pop: list.pop() without the index removes the last element.
pop_last(list, index) == SubSeq(list, 1, Len(list) - 1)

\* list.pop(index), 1-based.
pop(list, index) ==
    [i \in 1..(Len(list) - 1) |-> IF i < index THEN list[i] ELSE list[i + 1]]

\* dict[key] = value, also when the key is new.
set_key(dict, key, value) ==
    [k \in (DOMAIN dict) \cup {key} |-> IF k = key THEN value ELSE dict[k]]

\* Mutant of add_not_idle: the check is dropped.
add_not_idle_unchecked(response) == FALSE

\* Line 28: the channel must be IDLE for an add.
add_not_idle(response) == response.State # "IDLE"

\* Line 326: a delete skips a channel that is not IDLE.
delete_not_idle(response) == response.State # "IDLE"

\* ------------------------------------- add_or_update_medialive_output_group

mre_destination(url) ==
    [Id |-> "awsmre", Settings |-> <<[Url |-> url]>>]

\* Mutant of add_destinations: no scan for an existing 'awsmre' destination.
add_destinations_always_append(destinations, url) ==
    Append(destinations, mre_destination(url))

\* Lines 55-78: update the first 'awsmre' destination, else append a new one.
add_destinations(destinations, url) ==
    LET index == first_mre_destination(destinations, 1)
    IN  IF index # 0
        THEN [destinations EXCEPT ![index].Settings[1].Url = url]
        ELSE Append(destinations, mre_destination(url))

\* destinations[index]["Settings"][0] of an empty Settings list: IndexError.
add_destinations_raises(destinations) ==
    LET index == first_mre_destination(destinations, 1)
    IN  index # 0 /\ destinations[index].Settings = <<>>

\* Line 80.
audio_descriptions_of(encoder_settings) ==
    IF "AudioDescriptions" \in DOMAIN encoder_settings
    THEN encoder_settings.AudioDescriptions
    ELSE <<>>

\* Lines 85-87: the AudioSelectors of the first input attachment.
audio_selectors_of(input_attachments) ==
    IF "AudioSelectors" \in DOMAIN input_attachments[1].InputSettings
    THEN input_attachments[1].InputSettings.AudioSelectors
    ELSE <<>>

\* How many uuid4() values lines 90-98 draw for this channel description.
uuids_needed(response) ==
    IF audio_descriptions_of(response.EncoderSettings) = <<>>
           /\ response.InputAttachments # <<>>
    THEN Len(audio_selectors_of(response.InputAttachments))
    ELSE 0

\* Lines 82-101: with no audio description, one is made per audio selector.
add_audio_descriptions(input_attachments, encoder_settings, uuids) ==
    LET audio_descriptions == audio_descriptions_of(encoder_settings)
        audio_selectors == audio_selectors_of(input_attachments)
    IN  IF audio_descriptions # <<>>
        THEN encoder_settings
        ELSE set_key(encoder_settings, "AudioDescriptions",
                 [i \in 1..Len(audio_selectors) |->
                     [AudioSelectorName |-> audio_selectors[i].Name,
                      AudioTypeControl |-> "FOLLOW_INPUT",
                      LanguageCodeControl |-> "FOLLOW_INPUT",
                      Name |-> "audio_" \o uuids[i]]])

\* input_attachments[0] of a channel without input attachments: IndexError.
add_audio_descriptions_raises(input_attachments, encoder_settings) ==
    audio_descriptions_of(encoder_settings) = <<>> /\ input_attachments = <<>>

\* Line 103.
audio_description_name_list(audio_descriptions) ==
    [i \in 1..Len(audio_descriptions) |-> audio_descriptions[i].Name]

\* Lines 124-193.
mre_output_group(chunk_size, audio_description_names) ==
    [OutputGroupSettings |->
        [HlsGroupSettings |->
            [AdMarkers |-> <<>>,
             CaptionLanguageMappings |-> <<>>,
             CaptionLanguageSetting |-> "OMIT",
             ClientCache |-> "ENABLED",
             CodecSpecification |-> "RFC_4281",
             Destination |-> [DestinationRefId |-> "awsmre"],
             DirectoryStructure |-> "SINGLE_DIRECTORY",
             DiscontinuityTags |-> "INSERT",
             HlsId3SegmentTagging |-> "DISABLED",
             IFrameOnlyPlaylists |-> "DISABLED",
             IncompleteSegmentBehavior |-> "AUTO",
             IndexNSegments |-> 10,
             InputLossAction |-> "PAUSE_OUTPUT",
             IvInManifest |-> "INCLUDE",
             IvSource |-> "FOLLOWS_SEGMENT_NUMBER",
             KeepSegments |-> 21,
             ManifestCompression |-> "NONE",
             ManifestDurationFormat |-> "FLOATING_POINT",
             Mode |-> "VOD",
             OutputSelection |-> "VARIANT_MANIFESTS_AND_SEGMENTS",
             ProgramDateTime |-> "INCLUDE",
             ProgramDateTimePeriod |-> int(chunk_size),
             RedundantManifest |-> "DISABLED",
             SegmentLength |-> int(chunk_size),
             SegmentationMode |-> "USE_SEGMENT_DURATION",
             SegmentsPerSubdirectory |-> 10000,
             StreamInfResolution |-> "INCLUDE",
             TimedMetadataId3Frame |-> "PRIV",
             TimedMetadataId3Period |-> 10,
             TsFileMode |-> "SEGMENTED_FILES"]],
     Outputs |->
        <<[AudioDescriptionNames |-> audio_description_names,
           CaptionDescriptionNames |-> <<>>,
           OutputName |-> "awsmre",
           OutputSettings |->
               [HlsOutputSettings |->
                   [H265PackagingType |-> "HVC1",
                    HlsSettings |->
                        [StandardHlsSettings |->
                            [AudioRenditionSets |-> "program_audio",
                             M3u8Settings |->
                                 [AudioFramesPerPes |-> 4,
                                  AudioPids |-> "492-498",
                                  NielsenId3Behavior |-> "NO_PASSTHROUGH",
                                  PcrControl |-> "PCR_EVERY_PES_PACKET",
                                  PmtPid |-> "480",
                                  ProgramNum |-> 1,
                                  Scte35Behavior |-> "NO_PASSTHROUGH",
                                  Scte35Pid |-> "500",
                                  TimedMetadataBehavior |-> "NO_PASSTHROUGH",
                                  TimedMetadataPid |-> "502",
                                  VideoPid |-> "481"]]],
                    NameModifier |-> "_1"]],
           VideoDescriptionName |-> "video_awsmre"]>>]

\* Mutant of add_output_groups: an existing MRE output group keeps the
\* AudioDescriptionNames it had.
add_output_groups_stale_audio_names(output_groups, chunk_size, audio_description_names) ==
    LET index == first_mre_output_group(output_groups, 1)
    IN  IF index # 0
        THEN [output_groups EXCEPT
                 ![index].OutputGroupSettings.HlsGroupSettings.SegmentLength =
                     int(chunk_size),
                 ![index].OutputGroupSettings.HlsGroupSettings.ProgramDateTimePeriod =
                     int(chunk_size)]
        ELSE Append(output_groups,
                    mre_output_group(chunk_size, audio_description_names))

\* Mutant of add_output_groups: an existing MRE output group is left as it is.
add_output_groups_no_update(output_groups, chunk_size, audio_description_names) ==
    IF first_mre_output_group(output_groups, 1) # 0
    THEN output_groups
    ELSE Append(output_groups,
                mre_output_group(chunk_size, audio_description_names))

\* Lines 105-198: update the first HLS output group that references
\* 'awsmre', else append a new one.
add_output_groups(output_groups, chunk_size, audio_description_names) ==
    LET index == first_mre_output_group(output_groups, 1)
    IN  IF index # 0
        THEN [output_groups EXCEPT
                 ![index].OutputGroupSettings.HlsGroupSettings.SegmentLength =
                     int(chunk_size),
                 ![index].OutputGroupSettings.HlsGroupSettings.ProgramDateTimePeriod =
                     int(chunk_size),
                 ![index].Outputs[1].AudioDescriptionNames = audio_description_names]
        ELSE Append(output_groups,
                    mre_output_group(chunk_size, audio_description_names))

\* Lines 211-249.
mre_video_description ==
    [CodecSettings |->
        [H264Settings |->
            [AdaptiveQuantization |-> "AUTO",
             AfdSignaling |-> "NONE",
             Bitrate |-> 5000000,
             BufSize |-> 5000000,
             ColorMetadata |-> "INSERT",
             EntropyEncoding |-> "CABAC",
             FlickerAq |-> "ENABLED",
             ForceFieldPictures |-> "DISABLED",
             FramerateControl |-> "INITIALIZE_FROM_SOURCE",
             GopBReference |-> "DISABLED",
             GopClosedCadence |-> 1,
             GopNumBFrames |-> 2,
             GopSize |-> 1,
             GopSizeUnits |-> "SECONDS",
             Level |-> "H264_LEVEL_AUTO",
             LookAheadRateControl |-> "MEDIUM",
             MaxBitrate |-> 5000000,
             NumRefFrames |-> 1,
             ParControl |-> "INITIALIZE_FROM_SOURCE",
             Profile |-> "HIGH",
             QvbrQualityLevel |-> 8,
             RateControlMode |-> "QVBR",
             ScanType |-> "PROGRESSIVE",
             SceneChangeDetect |-> "DISABLED",
             SpatialAq |-> "ENABLED",
             SubgopLength |-> "FIXED",
             Syntax |-> "DEFAULT",
             TemporalAq |-> "ENABLED",
             TimecodeInsertion |-> "DISABLED"]],
     Name |-> "video_awsmre",
     RespondToAfd |-> "NONE",
     ScalingBehavior |-> "DEFAULT",
     Sharpness |-> 50]

\* Mutant of add_video_descriptions: no scan for an existing 'video_awsmre'.
add_video_descriptions_always_append(video_descriptions) ==
    Append(video_descriptions, mre_video_description)

\* Lines 200-254: append the MRE video description unless one is there.
add_video_descriptions(video_descriptions) ==
    IF first_mre_video_description(video_descriptions, 1) # 0
    THEN video_descriptions
    ELSE Append(video_descriptions, mre_video_description)

\* Lines 55-254 raise (IndexError) before update_channel is reached.
add_compute_raises(response) ==
    \/ add_destinations_raises(response.Destinations)
    \/ add_audio_descriptions_raises(response.InputAttachments,
                                     response.EncoderSettings)

\* Lines 55-254: the Destinations and EncoderSettings handed to update_channel.
\* The lists of `response` are changed in place, so this is also what
\* `response` (and last_known_medialive_config, its alias) holds afterwards.
add_compute(response, chunk_size, url, uuids) ==
    LET with_audio ==
            add_audio_descriptions(response.InputAttachments,
                                   response.EncoderSettings, uuids)
        names == audio_description_name_list(audio_descriptions_of(with_audio))
        with_groups ==
            [with_audio EXCEPT
                !.OutputGroups = add_output_groups(@, chunk_size, names)]
        with_video ==
            [with_groups EXCEPT
                !.VideoDescriptions = add_video_descriptions(@)]
    IN  [response EXCEPT
            !.Destinations = add_destinations(@, url),
            !.EncoderSettings = with_video]

\* -------------------------------------------- delete_medialive_output_group

\* Mutant of first_matching_destination: the Url is not compared.
first_matching_destination_any_url(destinations, url, index) ==
    first_mre_destination(destinations, index)

\* Lines 336-342: the first destination with Id 'awsmre' and this event's Url.
RECURSIVE first_matching_destination(_, _, _)
first_matching_destination(destinations, url, index) ==
    IF index > Len(destinations) THEN 0
    ELSE IF /\ destinations[index].Id = "awsmre"
            /\ destinations[index].Settings # <<>>
            /\ destinations[index].Settings[1].Url = url
         THEN index
    ELSE first_matching_destination(destinations, url, index + 1)

\* destination["Settings"][0] of an 'awsmre' destination with an empty
\* Settings list, met before the loop breaks: IndexError.
delete_compute_raises(response, url) ==
    LET destinations == response.Destinations
        index == first_matching_destination(destinations, url, 1)
    IN  \E i \in 1..Len(destinations) :
            /\ destinations[i].Id = "awsmre"
            /\ destinations[i].Settings = <<>>
            /\ (index = 0 \/ i < index)

\* Line 344: delete_output_group.
delete_output_group(response, url) ==
    first_matching_destination(response.Destinations, url, 1) # 0

\* Lines 347-355.
delete_output_groups(output_groups) ==
    LET index == first_mre_output_group(output_groups, 1)
    IN  IF index # 0 THEN pop(output_groups, index) ELSE output_groups

\* Mutant of delete_video_descriptions: the video description is kept.
delete_video_descriptions_kept(video_descriptions) == video_descriptions

\* Lines 359-365.
delete_video_descriptions(video_descriptions) ==
    LET index == first_mre_video_description(video_descriptions, 1)
    IN  IF index # 0 THEN pop(video_descriptions, index) ELSE video_descriptions

\* Lines 336-365: the Destinations and EncoderSettings handed to
\* update_channel when delete_output_group is set.
delete_compute(response, url) ==
    [response EXCEPT
        !.Destinations =
            pop(@, first_matching_destination(@, url, 1)),
        !.EncoderSettings =
            [@ EXCEPT !.OutputGroups = delete_output_groups(@),
                      !.VideoDescriptions = delete_video_descriptions(@)]]

\* ------------------------------------------------------- AWS service calls

\* medialive_client.update_channel(ChannelId, Destinations, EncoderSettings).
update_channel(channels, channel_id, config) ==
    [channels EXCEPT
        ![channel_id].Destinations = config.Destinations,
        ![channel_id].EncoderSettings = config.EncoderSettings]

\* Mutant of alarm_name: the channel id is left out of the name.
alarm_name_shared(channel_id) ==
    "AWS_MRE_MediaLive_InputVideoFrameRate_Alarm"

\* Lines 283, 391: the alarm's name.
alarm_name(channel_id) ==
    "AWS_MRE_MediaLive_" \o channel_id \o "_InputVideoFrameRate_Alarm"

\* Lines 282-311: the arguments of put_metric_alarm.
metric_alarm(channel_id) ==
    [AlarmName |-> alarm_name(channel_id),
     AlarmDescription |->
         "Alarm created by AWS MRE for the MediaLive channel " \o channel_id
             \o " to monitor input video frame rate and update the status of an Event to Complete",
     ComparisonOperator |-> "LessThanOrEqualToThreshold",
     MetricName |-> "InputVideoFrameRate",
     Period |-> 10,
     EvaluationPeriods |-> 1,
     DatapointsToAlarm |-> 1,
     Threshold |-> 0,
     TreatMissingData |-> "breaching",
     Namespace |-> "MediaLive",
     Statistic |-> "Minimum",
     Dimensions |-> <<[Name |-> "ChannelId", Value |-> channel_id],
                      [Name |-> "Pipeline", Value |-> "0"]>>,
     ActionsEnabled |-> FALSE,
     Tags |-> <<[Key |-> "Project", Value |-> "MRE"]>>]

\* cw_client.put_metric_alarm: creates the alarm or replaces the one of that name.
put_metric_alarm(alarm_set, alarm) ==
    {a \in alarm_set : a.AlarmName # alarm.AlarmName} \cup {alarm}

\* cw_client.delete_alarms(AlarmNames).
delete_alarms(alarm_set, alarm_names) ==
    {a \in alarm_set : a.AlarmName \notin alarm_names}

\* Lines 404-412: json.dumps of the message dictionary.
deletion_message(name, program, profile) ==
    "{\"Event\": \"" \o name \o "\", \"Program\": \"" \o program
        \o "\", \"Profile\": \"" \o profile \o "\"}"

\* sqs_client.send_message(QueueUrl, MessageBody).
send_message(messages, body) == Append(messages, body)

\* ------------------------------------------- the handlers, run to the end

\* Lines 19-274 when no AWS call fails: the channels add_or_update_medialive_
\* output_group leaves behind (unchanged when it raises).
add_or_update_medialive_output_group(channels, name, program, profile, channel_id, uuids) ==
    IF channel_id \notin DOMAIN channels THEN channels
    ELSE IF add_not_idle(channels[channel_id]) THEN channels
    ELSE IF profile \notin DOMAIN profile_table THEN channels
    ELSE IF add_compute_raises(channels[channel_id]) THEN channels
    ELSE update_channel(channels, channel_id,
             add_compute(channels[channel_id], profile_table[profile].ChunkSize,
                         mre_url(name, program, profile, channel_id), uuids))

\* Lines 318-384 when no AWS call fails: the channels
\* delete_medialive_output_group leaves behind.
delete_medialive_output_group(channels, name, program, profile, channel_id) ==
    LET url == mre_url(name, program, profile, channel_id)
    IN  IF channel_id \notin DOMAIN channels THEN channels
        ELSE IF delete_not_idle(channels[channel_id]) THEN channels
        ELSE IF delete_compute_raises(channels[channel_id], url) THEN channels
        ELSE IF ~delete_output_group(channels[channel_id], url) THEN channels
        ELSE update_channel(channels, channel_id,
                 delete_compute(channels[channel_id], url))

\* The uuid4() draws an add on this channel description may make.
uuid_draws(response) == [1..uuids_needed(response) -> UuidHex]

\* ------------------------------------------------------------ invocations

Workers == {1, 2}

no_response == [State |-> "NONE"]
no_channels == [c \in {} |-> no_response]

no_calls ==
    [describe_channel |-> 0, get_item |-> 0, update_channel |-> 0,
     put_metric_alarm |-> 0, delete_alarms |-> 0, send_message |-> 0]

\* A worker that runs nothing.
idle_invocation ==
    [pc |-> "idle", op |-> "none",
     name |-> "", program |-> "", profile |-> "", channel_id |-> "",
     response |-> no_response,    \* what describe_channel returned
     chunk_size |-> 0,
     calls |-> no_calls,          \* AWS calls issued by this invocation
     aws_failed |-> FALSE,        \* an AWS call of this invocation failed
     raised |-> FALSE,            \* the invocation ended by raising
     ret |-> no_response,         \* the value returned (None: no_response)
     before |-> no_channels]      \* the channels when the invocation began

issue(i, api) == [i EXCEPT !.calls[api] = @ + 1]

\* Mutant of add_except: the exception is logged and swallowed.
add_except_swallowed(i) == [i EXCEPT !.pc = "done", !.raised = FALSE]

\* Lines 264-271: log, raise Exception(e).
add_except(i) == [i EXCEPT !.pc = "done", !.raised = TRUE]

\* Lines 313-316: log, raise Exception(e).
create_alarm_except(i) == [i EXCEPT !.pc = "done", !.raised = TRUE]

\* Lines 379-384: log only.
delete_output_group_except(i) == [i EXCEPT !.pc = "done", !.raised = FALSE]

\* Lines 394-396: log only.
delete_alarm_except(i) == [i EXCEPT !.pc = "done", !.raised = FALSE]

\* Mutant of notify_except: send_message is tried again.
notify_except_retry(i) == [i EXCEPT !.pc = "call"]

\* Lines 415-417: log only.
notify_except(i) == [i EXCEPT !.pc = "done", !.raised = FALSE]

\* ------------------------------------------------------------ the inputs

Names == {"e1", "e2"}
Programs == {"pg"}
Profiles == {"p1", "p2", "px"}     \* "px" is not in the profile table
ChannelIds == {"1", "2"}           \* channel "2" does not exist
MaxQueue == 2

\* ------------------------------------------------- initial channel contents

\* Entries the operator owns.
op_destination(id) ==
    [Id |-> id, Settings |-> <<[Url |-> "s3ssl://operator/" \o id]>>]

op_hls_group ==
    [OutputGroupSettings |->
        [HlsGroupSettings |->
            [Destination |-> [DestinationRefId |-> "op1"],
             ProgramDateTimePeriod |-> 600,
             SegmentLength |-> 6]],
     Outputs |-> <<[AudioDescriptionNames |-> <<"audio_op">>,
                    OutputName |-> "op_hls",
                    VideoDescriptionName |-> "video_op"]>>]

op_archive_group ==
    [OutputGroupSettings |->
        [ArchiveGroupSettings |->
            [Destination |-> [DestinationRefId |-> "op2"]]],
     Outputs |-> <<[AudioDescriptionNames |-> <<"audio_op">>,
                    OutputName |-> "op_archive",
                    VideoDescriptionName |-> "video_op"]>>]

op_video_description == [Name |-> "video_op", Sharpness |-> 50]

op_audio_description ==
    [AudioSelectorName |-> "sel1", AudioTypeControl |-> "FOLLOW_INPUT",
     LanguageCodeControl |-> "FOLLOW_INPUT", Name |-> "audio_op"]

\* Input attachments: none, one without AudioSelectors, one with two.
InitInputAttachments ==
    { <<>>,
      <<[InputAttachmentName |-> "in1", InputSettings |-> [SourceEndBehavior |-> "CONTINUE"]]>>,
      <<[InputAttachmentName |-> "in1",
         InputSettings |-> [SourceEndBehavior |-> "CONTINUE",
                            AudioSelectors |-> <<[Name |-> "sel1"], [Name |-> "sel2"]>>]]>> }

\* An MRE destination left by an earlier add: of event e1, or of an event
\* that no call of the model names.
InitMreDestinations ==
    { <<>>,
      <<mre_destination(mre_url("e1", "pg", "p1", "1"))>>,
      <<mre_destination(mre_url("e0", "pg", "p1", "1"))>>,
      \* a standard-class channel: one Url per pipeline
      <<[Id |-> "awsmre",
         Settings |-> <<[Url |-> mre_url("e2", "pg", "p2", "1")],
                        [Url |-> "s3ssl://operator/pipeline1"]>>]>>,
      \* a destination without Url settings that carries the Id 'awsmre'
      <<[Id |-> "awsmre",
         MediaPackageSettings |-> <<[ChannelId |-> "mp1"]>>,
         Settings |-> <<>>]>> }

\* A channel description as describe_channel returns it.  MediaLive keeps
\* destination Ids and description names unique, so at most one MRE entry of
\* each kind; the operator's entries stand before and after it.
channel(state, input_attachments, mre_dest, has_group, has_video, audio) ==
    [State |-> state,
     InputAttachments |-> input_attachments,
     Destinations |-> <<op_destination("op1")>> \o mre_dest
                          \o <<op_destination("op2")>>,
     EncoderSettings |->
        LET names == audio_description_name_list(audio.list)
            base ==
                [OutputGroups |->
                     <<op_hls_group>>
                         \o (IF has_group THEN <<mre_output_group(200, names)>> ELSE <<>>)
                         \o <<op_archive_group>>,
                 TimecodeConfig |-> [Source |-> "EMBEDDED"],
                 VideoDescriptions |->
                     <<op_video_description>>
                         \o (IF has_video THEN <<mre_video_description>> ELSE <<>>)]
        IN  IF audio.present
            THEN set_key(base, "AudioDescriptions", audio.list)
            ELSE base]

InitAudio ==
    { [present |-> FALSE, list |-> <<>>],
      [present |-> TRUE, list |-> <<op_audio_description>>] }

InitChannels ==
    { channel("IDLE", ia, d, g, v, a) :
          ia \in InitInputAttachments, d \in InitMreDestinations,
          g \in BOOLEAN, v \in BOOLEAN, a \in InitAudio }
    \cup
    { channel("RUNNING", ia, d, d # <<>>, d # <<>>,
              [present |-> TRUE, list |-> <<op_audio_description>>]) :
          ia \in {ia2 \in InitInputAttachments : ia2 # <<>>},
          d \in InitMreDestinations }

Init ==
    /\ \E c \in InitChannels : medialive = [id \in {"1"} |-> c]
    /\ alarms = {}
    /\ queue = <<>>
    /\ inv = [w \in Workers |-> idle_invocation]
    /\ last_alarm_call = [c \in ChannelIds |-> "none"]

\* ----------------------------------------------------------------- actions

\* A caller invokes add_or_update_medialive_output_group(name, program,
\* profile, channel_id).
CallAddOrUpdate(w) ==
    /\ inv[w].pc = "idle"
    /\ \E name \in Names, program \in Programs, profile \in Profiles,
          channel_id \in ChannelIds :
          inv' = [inv EXCEPT ![w] =
                     [idle_invocation EXCEPT
                         !.pc = "describe",
                         !.op = "add_or_update_medialive_output_group",
                         !.name = name, !.program = program,
                         !.profile = profile, !.channel_id = channel_id,
                         !.before = medialive]]
    /\ UNCHANGED <<medialive, alarms, queue, last_alarm_call>>

\* Lines 24-34: describe_channel and the IDLE check.
AddDescribe(w) ==
    /\ inv[w].pc = "describe"
    /\ inv[w].op = "add_or_update_medialive_output_group"
    /\ \E ok \in BOOLEAN :
          LET i == issue(inv[w], "describe_channel")
          IN  IF ok /\ i.channel_id \in DOMAIN medialive
              THEN LET response == medialive[i.channel_id]
                   IN  IF add_not_idle(response)
                       THEN inv' = [inv EXCEPT ![w] =
                                add_except([i EXCEPT !.response = response])]
                       ELSE inv' = [inv EXCEPT ![w] =
                                [i EXCEPT !.response = response,
                                          !.pc = "get_item"]]
              ELSE inv' = [inv EXCEPT ![w] =
                       add_except([i EXCEPT !.aws_failed = TRUE])]
    /\ UNCHANGED <<medialive, alarms, queue, last_alarm_call>>

\* Lines 36-53: get_item on the profile table.
AddGetItem(w) ==
    /\ inv[w].pc = "get_item"
    /\ \E ok \in BOOLEAN :
          LET i == issue(inv[w], "get_item")
          IN  IF ~ok
              THEN inv' = [inv EXCEPT ![w] =
                       add_except([i EXCEPT !.aws_failed = TRUE])]
              ELSE IF i.profile \notin DOMAIN profile_table
              THEN inv' = [inv EXCEPT ![w] = add_except(i)]
              ELSE inv' = [inv EXCEPT ![w] =
                       [i EXCEPT !.chunk_size = profile_table[i.profile].ChunkSize,
                                 !.pc = "update"]]
    /\ UNCHANGED <<medialive, alarms, queue, last_alarm_call>>

\* Lines 55-274: the local changes, update_channel and the return.
AddUpdate(w) ==
    /\ inv[w].pc = "update"
    /\ inv[w].op = "add_or_update_medialive_output_group"
    /\ LET i == inv[w]
           url == mre_url(i.name, i.program, i.profile, i.channel_id)
       IN  IF add_compute_raises(i.response)
           THEN /\ inv' = [inv EXCEPT ![w] = add_except(i)]
                /\ UNCHANGED medialive
           ELSE \E ok \in BOOLEAN,
                   uuids \in uuid_draws(i.response) :
                  LET config == add_compute(i.response, i.chunk_size, url, uuids)
                      j == issue([i EXCEPT !.response = config], "update_channel")
                  IN  IF ok /\ i.channel_id \in DOMAIN medialive
                      THEN /\ medialive' =
                                  update_channel(medialive, i.channel_id, config)
                           /\ inv' = [inv EXCEPT ![w] =
                                  [j EXCEPT !.pc = "done", !.ret = j.response]]
                      ELSE /\ inv' = [inv EXCEPT ![w] =
                                  add_except([j EXCEPT !.aws_failed = TRUE])]
                           /\ UNCHANGED medialive
    /\ UNCHANGED <<alarms, queue, last_alarm_call>>

\* A caller invokes delete_medialive_output_group(name, program, profile,
\* channel_id).
CallDelete(w) ==
    /\ inv[w].pc = "idle"
    /\ \E name \in Names, program \in Programs, profile \in Profiles,
          channel_id \in ChannelIds :
          inv' = [inv EXCEPT ![w] =
                     [idle_invocation EXCEPT
                         !.pc = "describe",
                         !.op = "delete_medialive_output_group",
                         !.name = name, !.program = program,
                         !.profile = profile, !.channel_id = channel_id,
                         !.before = medialive]]
    /\ UNCHANGED <<medialive, alarms, queue, last_alarm_call>>

\* Lines 322-344 and 375-377: describe_channel, the IDLE check and the scan
\* of the destinations.
DeleteDescribe(w) ==
    /\ inv[w].pc = "describe"
    /\ inv[w].op = "delete_medialive_output_group"
    /\ \E ok \in BOOLEAN :
          LET i == issue(inv[w], "describe_channel")
              url == mre_url(i.name, i.program, i.profile, i.channel_id)
          IN  IF ok /\ i.channel_id \in DOMAIN medialive
              THEN LET response == medialive[i.channel_id]
                       j == [i EXCEPT !.response = response]
                   IN  IF delete_not_idle(response)
                       THEN inv' = [inv EXCEPT ![w] = [j EXCEPT !.pc = "done"]]
                       ELSE IF delete_compute_raises(response, url)
                       THEN inv' = [inv EXCEPT ![w] =
                                delete_output_group_except(j)]
                       ELSE IF delete_output_group(response, url)
                       THEN inv' = [inv EXCEPT ![w] = [j EXCEPT !.pc = "update"]]
                       ELSE inv' = [inv EXCEPT ![w] = [j EXCEPT !.pc = "done"]]
              ELSE inv' = [inv EXCEPT ![w] =
                       delete_output_group_except([i EXCEPT !.aws_failed = TRUE])]
    /\ UNCHANGED <<medialive, alarms, queue, last_alarm_call>>

\* Lines 345-373: the removals and update_channel.
DeleteUpdate(w) ==
    /\ inv[w].pc = "update"
    /\ inv[w].op = "delete_medialive_output_group"
    /\ \E ok \in BOOLEAN :
          LET i == inv[w]
              url == mre_url(i.name, i.program, i.profile, i.channel_id)
              config == delete_compute(i.response, url)
              j == issue([i EXCEPT !.response = config], "update_channel")
          IN  IF ok /\ i.channel_id \in DOMAIN medialive
              THEN /\ medialive' =
                          update_channel(medialive, i.channel_id, config)
                   /\ inv' = [inv EXCEPT ![w] = [j EXCEPT !.pc = "done"]]
              ELSE /\ inv' = [inv EXCEPT ![w] =
                          delete_output_group_except(
                              [j EXCEPT !.aws_failed = TRUE])]
                   /\ UNCHANGED medialive
    /\ UNCHANGED <<alarms, queue, last_alarm_call>>

\* The invocation is over: its caller has the result or the exception.
Return(w) ==
    /\ inv[w].pc = "done"
    /\ inv' = [inv EXCEPT ![w] = idle_invocation]
    /\ UNCHANGED <<medialive, alarms, queue, last_alarm_call>>

MediaLiveStep(w) ==
    \/ CallAddOrUpdate(w)
    \/ AddDescribe(w)
    \/ AddGetItem(w)
    \/ AddUpdate(w)
    \/ CallDelete(w)
    \/ DeleteDescribe(w)
    \/ DeleteUpdate(w)
    \/ Return(w)

\* A caller invokes create_cloudwatch_alarm_for_channel(channel_id).
CallCreateAlarm(w) ==
    /\ inv[w].pc = "idle"
    /\ \E channel_id \in ChannelIds :
          inv' = [inv EXCEPT ![w] =
                     [idle_invocation EXCEPT
                         !.pc = "call",
                         !.op = "create_cloudwatch_alarm_for_channel",
                         !.channel_id = channel_id,
                         !.before = medialive]]
    /\ UNCHANGED <<medialive, alarms, queue, last_alarm_call>>

\* Lines 281-316: put_metric_alarm.
CreateAlarmPut(w) ==
    /\ inv[w].pc = "call"
    /\ inv[w].op = "create_cloudwatch_alarm_for_channel"
    /\ \E ok \in BOOLEAN :
          LET i == issue(inv[w], "put_metric_alarm")
          IN  IF ok
              THEN /\ alarms' = put_metric_alarm(alarms, metric_alarm(i.channel_id))
                   /\ last_alarm_call' =
                          [last_alarm_call EXCEPT ![i.channel_id] = "create"]
                   /\ inv' = [inv EXCEPT ![w] = [i EXCEPT !.pc = "done"]]
              ELSE /\ inv' = [inv EXCEPT ![w] =
                          create_alarm_except([i EXCEPT !.aws_failed = TRUE])]
                   /\ UNCHANGED <<alarms, last_alarm_call>>
    /\ UNCHANGED <<medialive, queue>>

\* A caller invokes delete_cloudwatch_alarm_for_channel(channel_id).
CallDeleteAlarm(w) ==
    /\ inv[w].pc = "idle"
    /\ \E channel_id \in ChannelIds :
          inv' = [inv EXCEPT ![w] =
                     [idle_invocation EXCEPT
                         !.pc = "call",
                         !.op = "delete_cloudwatch_alarm_for_channel",
                         !.channel_id = channel_id,
                         !.before = medialive]]
    /\ UNCHANGED <<medialive, alarms, queue, last_alarm_call>>

\* Lines 389-396: delete_alarms.
DeleteAlarmCall(w) ==
    /\ inv[w].pc = "call"
    /\ inv[w].op = "delete_cloudwatch_alarm_for_channel"
    /\ \E ok \in BOOLEAN :
          LET i == issue(inv[w], "delete_alarms")
          IN  IF ok
              THEN /\ alarms' = delete_alarms(alarms, {alarm_name(i.channel_id)})
                   /\ last_alarm_call' =
                          [last_alarm_call EXCEPT ![i.channel_id] = "delete"]
                   /\ inv' = [inv EXCEPT ![w] = [i EXCEPT !.pc = "done"]]
              ELSE /\ inv' = [inv EXCEPT ![w] =
                          delete_alarm_except([i EXCEPT !.aws_failed = TRUE])]
                   /\ UNCHANGED <<alarms, last_alarm_call>>
    /\ UNCHANGED <<medialive, queue>>

\* A caller invokes notify_event_deletion_queue(name, program, profile).
CallNotify(w) ==
    /\ inv[w].pc = "idle"
    /\ Len(queue) < MaxQueue
    /\ \E name \in Names, program \in Programs, profile \in Profiles :
          inv' = [inv EXCEPT ![w] =
                     [idle_invocation EXCEPT
                         !.pc = "call",
                         !.op = "notify_event_deletion_queue",
                         !.name = name, !.program = program,
                         !.profile = profile,
                         !.before = medialive]]
    /\ UNCHANGED <<medialive, alarms, queue, last_alarm_call>>

\* Lines 403-417: send_message.
NotifySend(w) ==
    /\ inv[w].pc = "call"
    /\ inv[w].op = "notify_event_deletion_queue"
    /\ \E ok \in BOOLEAN :
          LET i == issue(inv[w], "send_message")
          IN  IF ok
              THEN /\ queue' = send_message(queue,
                                   deletion_message(i.name, i.program, i.profile))
                   /\ inv' = [inv EXCEPT ![w] = [i EXCEPT !.pc = "done"]]
              ELSE /\ inv' = [inv EXCEPT ![w] =
                          notify_except([i EXCEPT !.aws_failed = TRUE])]
                   /\ UNCHANGED queue
    /\ UNCHANGED <<medialive, alarms, last_alarm_call>>

AlarmQueueStep(w) ==
    \/ CallCreateAlarm(w)
    \/ CreateAlarmPut(w)
    \/ CallDeleteAlarm(w)
    \/ DeleteAlarmCall(w)
    \/ CallNotify(w)
    \/ NotifySend(w)

\* One invocation at a time: a sequence of calls on the MediaLive channel.
Next == MediaLiveStep(1)

Spec == Init /\ [][Next]_vars

\* All five operations, one invocation at a time, on an IDLE channel that
\* starts with the operator's entries only.
InitOps ==
    /\ Init
    /\ medialive["1"] \in
           { channel("IDLE", ia, <<>>, FALSE, FALSE,
                     [present |-> TRUE, list |-> <<op_audio_description>>]) :
                 ia \in {ia2 \in InitInputAttachments : ia2 # <<>>} }

NextOps == MediaLiveStep(1) \/ AlarmQueueStep(1)

SpecOps == InitOps /\ [][NextOps]_vars

\* Two callers at once on a channel that is IDLE: invocation 1 runs
\* add_or_update_medialive_output_group, invocation 2 runs
\* delete_medialive_output_group, their AWS calls interleaved in any order.
\* The code takes no lock and passes no version to update_channel.
InitConc ==
    /\ Init
    /\ medialive["1"] \in
           { channel("IDLE", ia, d, d # <<>>, d # <<>>,
                     [present |-> TRUE, list |-> <<op_audio_description>>]) :
                 ia \in {ia2 \in InitInputAttachments : ia2 # <<>>},
                 d \in {<<>>, <<mre_destination(mre_url("e1", "pg", "p1", "1"))>>} }

AddOrUpdateStep(w) ==
    \/ CallAddOrUpdate(w)
    \/ AddDescribe(w)
    \/ AddGetItem(w)
    \/ AddUpdate(w)
    \/ Return(w)

DeleteStep(w) ==
    \/ CallDelete(w)
    \/ DeleteDescribe(w)
    \/ DeleteUpdate(w)
    \/ Return(w)

NextConc == AddOrUpdateStep(1) \/ DeleteStep(2)

SpecConc == InitConc /\ [][NextConc]_vars

\* ------------------------------------------------------------------ claims

destinations_with_id(response, id) ==
    SelectSeq(response.Destinations, LAMBDA d : d.Id = id)
mre_output_groups(response) ==
    SelectSeq(response.EncoderSettings.OutputGroups, is_mre_output_group)
video_descriptions_named(response, name) ==
    SelectSeq(response.EncoderSettings.VideoDescriptions,
              LAMBDA v : v.Name = name)

has_no_mre_entries(response) ==
    /\ destinations_with_id(response, "awsmre") = <<>>
    /\ mre_output_groups(response) = <<>>
    /\ video_descriptions_named(response, "video_awsmre") = <<>>

done_ok(i, op) == i.pc = "done" /\ i.op = op /\ ~i.raised

\* C1: add_or_update_medialive_output_group is idempotent.  For every IDLE
\* channel and every profile of the profile table, a second call with the
\* same (name, program, profile, channel_id) right after the first leaves
\* Destinations and EncoderSettings as the first call left them.
C1_AddIdempotent ==
    \A channel_id \in DOMAIN medialive, name \in Names, program \in Programs,
       profile \in DOMAIN profile_table :
        medialive[channel_id].State = "IDLE" =>
            \A u1 \in uuid_draws(medialive[channel_id]) :
                LET once == add_or_update_medialive_output_group(
                                medialive, name, program, profile, channel_id, u1)
                IN  \A u2 \in uuid_draws(once[channel_id]) :
                        LET twice == add_or_update_medialive_output_group(
                                         once, name, program, profile, channel_id, u2)
                        IN  /\ twice[channel_id].Destinations
                                   = once[channel_id].Destinations
                            /\ twice[channel_id].EncoderSettings
                                   = once[channel_id].EncoderSettings

\* C1 witness: an add that succeeded (update_channel was issued) on a channel
\* that already held exactly what this call writes, audio descriptions made by
\* an earlier add included.
C1_Witness ==
    /\ done_ok(inv[1], "add_or_update_medialive_output_group")
    /\ inv[1].calls.update_channel = 1
    /\ medialive = inv[1].before
    /\ Len(audio_descriptions_of(medialive["1"].EncoderSettings)) = 2

\* C2: delete_medialive_output_group undoes add_or_update_medialive_output_
\* group.  On an IDLE channel without 'awsmre' destination, MRE output group
\* and 'video_awsmre' video description, add then delete with the same
\* arguments restores Destinations, OutputGroups and VideoDescriptions.
C2_DeleteUndoesAdd ==
    \A channel_id \in DOMAIN medialive, name \in Names, program \in Programs,
       profile \in Profiles :
        (medialive[channel_id].State = "IDLE"
             /\ has_no_mre_entries(medialive[channel_id])) =>
            \A u \in uuid_draws(medialive[channel_id]) :
                LET added == add_or_update_medialive_output_group(
                                 medialive, name, program, profile, channel_id, u)
                    deleted == delete_medialive_output_group(
                                   added, name, program, profile, channel_id)
                    was == medialive[channel_id]
                    now == deleted[channel_id]
                IN  /\ now.Destinations = was.Destinations
                    /\ now.EncoderSettings.OutputGroups
                           = was.EncoderSettings.OutputGroups
                    /\ now.EncoderSettings.VideoDescriptions
                           = was.EncoderSettings.VideoDescriptions

\* C2 witness: a delete has just removed the entries of an add that had run
\* on this channel before (the add's audio descriptions are still there) and
\* the channel holds no MRE entry.
C2_Witness ==
    /\ done_ok(inv[1], "delete_medialive_output_group")
    /\ inv[1].calls.update_channel = 1
    /\ has_no_mre_entries(medialive["1"])
    /\ ~has_no_mre_entries(inv[1].before["1"])
    /\ \E a \in 1..Len(audio_descriptions_of(medialive["1"].EncoderSettings)) :
           audio_descriptions_of(medialive["1"].EncoderSettings)[a].Name = "audio_0a"

\* C3: the channel never holds more than one 'awsmre' destination, one HLS
\* output group referencing 'awsmre' or one 'video_awsmre' video description.
C3_AtMostOneMreEntry ==
    \A channel_id \in DOMAIN medialive :
        /\ Len(destinations_with_id(medialive[channel_id], "awsmre")) <= 1
        /\ Len(mre_output_groups(medialive[channel_id])) <= 1
        /\ Len(video_descriptions_named(medialive[channel_id], "video_awsmre")) <= 1

\* C3 witness: an add has changed a channel that already held all three MRE
\* entries, and one of each is there.
C3_Witness ==
    /\ done_ok(inv[1], "add_or_update_medialive_output_group")
    /\ medialive # inv[1].before
    /\ Len(destinations_with_id(inv[1].before["1"], "awsmre")) = 1
    /\ Len(mre_output_groups(inv[1].before["1"])) = 1
    /\ Len(video_descriptions_named(inv[1].before["1"], "video_awsmre")) = 1
    /\ Len(destinations_with_id(medialive["1"], "awsmre")) = 1
    /\ Len(mre_output_groups(medialive["1"])) = 1
    /\ Len(video_descriptions_named(medialive["1"], "video_awsmre")) = 1

\* The entries of a channel that are not MRE's, in order.
operator_entries(response) ==
    [Destinations |->
         SelectSeq(response.Destinations, LAMBDA d : d.Id # "awsmre"),
     OutputGroups |->
         SelectSeq(response.EncoderSettings.OutputGroups,
                   LAMBDA g : ~is_mre_output_group(g)),
     VideoDescriptions |->
         SelectSeq(response.EncoderSettings.VideoDescriptions,
                   LAMBDA v : v.Name # "video_awsmre")]

\* C5: no step of add_or_update_medialive_output_group or
\* delete_medialive_output_group adds, removes, reorders or changes a
\* destination whose Id is not 'awsmre', an output group that is not the MRE
\* group, or a video description not named 'video_awsmre'.
C5_OperatorEntriesKept ==
    [][\A channel_id \in DOMAIN medialive :
          operator_entries(medialive'[channel_id])
              = operator_entries(medialive[channel_id])]_vars

\* C5 witness: a delete has removed MRE entries that stood between the
\* operator's entries.
C5_Witness ==
    /\ done_ok(inv[1], "delete_medialive_output_group")
    /\ inv[1].calls.update_channel = 1
    /\ Len(inv[1].before["1"].Destinations) = 3
    /\ inv[1].before["1"].Destinations[2].Id = "awsmre"
    /\ Len(medialive["1"].Destinations) = 2

\* C4 as claimed: whenever an AWS call inside an operation fails, the
\* operation ends by raising to its caller.
C4_EveryFailureRaised ==
    \A w \in Workers :
        (inv[w].pc = "done" /\ inv[w].aws_failed) => inv[w].raised

\* C4 as amended: a failed AWS call ends add_or_update_medialive_output_group
\* and create_cloudwatch_alarm_for_channel by raising; it ends
\* delete_medialive_output_group, delete_cloudwatch_alarm_for_channel and
\* notify_event_deletion_queue by a normal return (logged, not re-raised).
C4_FailureRaisedOnlyByAddAndCreate ==
    \A w \in Workers :
        (inv[w].pc = "done" /\ inv[w].aws_failed) =>
            (inv[w].raised <=>
                 inv[w].op \in {"add_or_update_medialive_output_group",
                                "create_cloudwatch_alarm_for_channel"})

\* C4 witness: update_channel failed inside an add, which raised.
C4_Witness ==
    /\ inv[1].pc = "done"
    /\ inv[1].op = "add_or_update_medialive_output_group"
    /\ inv[1].calls.update_channel = 1
    /\ inv[1].aws_failed
    /\ inv[1].raised

\* The MRE alarms CloudWatch holds for a channel.
alarms_of(channel_id) ==
    {a \in alarms :
        /\ \E d \in 1..Len(a.Dimensions) :
               a.Dimensions[d] = [Name |-> "ChannelId", Value |-> channel_id]
        /\ \E t \in 1..Len(a.Tags) : a.Tags[t] = [Key |-> "Project", Value |-> "MRE"]}

\* C6: each channel id has at most one MRE alarm, named
\* AWS_MRE_MediaLive_<channel_id>_InputVideoFrameRate_Alarm; it exists iff
\* the last put_metric_alarm / delete_alarms that succeeded for the channel
\* was a put_metric_alarm; and a step of a create or delete for one channel
\* leaves the alarms of every other channel as they are.
C6_OneAlarmPerChannel ==
    /\ [](\A c \in ChannelIds :
            /\ Cardinality(alarms_of(c)) <= 1
            /\ \A a \in alarms_of(c) :
                   a.AlarmName = "AWS_MRE_MediaLive_" \o c \o "_InputVideoFrameRate_Alarm"
            /\ (alarms_of(c) # {} <=> last_alarm_call[c] = "create"))
    /\ [][\A c \in ChannelIds :
            c # inv[1].channel_id => alarms_of(c)' = alarms_of(c)]_vars

\* C6 witness: the alarm of channel 1 has been created and then deleted
\* while channel 2 has its alarm.
C6_Witness ==
    /\ inv[1].pc = "done"
    /\ inv[1].op = "delete_cloudwatch_alarm_for_channel"
    /\ inv[1].channel_id = "1"
    /\ ~inv[1].aws_failed
    /\ alarms_of("1") = {}
    /\ Cardinality(alarms_of("2")) = 1

\* C7: within one invocation every AWS call is issued at most once, nothing
\* is issued after a call has failed (no retry), and update_channel is only
\* issued once the describe_channel of the same invocation has returned a
\* channel description.
C7_SingleShot ==
    \A w \in Workers :
        /\ \A api \in DOMAIN inv[w].calls : inv[w].calls[api] <= 1
        /\ inv[w].aws_failed => inv[w].pc = "done"
        /\ inv[w].calls.update_channel > 0 =>
               /\ inv[w].calls.describe_channel = 1
               /\ inv[w].response # no_response

\* C7 witness: a notify whose one send_message failed has ended, with the
\* queue as it was.
C7_Witness ==
    /\ inv[1].pc = "done"
    /\ inv[1].op = "notify_event_deletion_queue"
    /\ inv[1].calls.send_message = 1
    /\ inv[1].aws_failed
    /\ queue = <<>>

\* C8: add_or_update_medialive_output_group issues update_channel only for
\* a channel described as IDLE and a profile found in the profile table;
\* when the channel does not exist, is not IDLE, or the profile is missing,
\* the call raises and the channels are as they were.
C8_AddGuards ==
    \A w \in {1} :
        LET i == inv[w]
            found == i.channel_id \in DOMAIN i.before
            idle == found /\ i.before[i.channel_id].State = "IDLE"
            profiled == i.profile \in DOMAIN profile_table
        IN  i.op = "add_or_update_medialive_output_group" =>
                /\ i.calls.update_channel > 0 => (idle /\ profiled)
                /\ (i.pc = "done" /\ ~(idle /\ profiled)) =>
                       (i.raised /\ medialive = i.before)

\* C8 witness: an add for a missing profile on an IDLE channel has raised.
C8_Witness ==
    /\ inv[1].pc = "done"
    /\ inv[1].op = "add_or_update_medialive_output_group"
    /\ inv[1].channel_id = "1"
    /\ inv[1].before["1"].State = "IDLE"
    /\ inv[1].profile = "px"
    /\ ~inv[1].aws_failed
    /\ inv[1].raised

\* The channel has an 'awsmre' destination whose first Url is `url`.
has_mre_destination_with_url(response, url) ==
    \E d \in 1..Len(response.Destinations) :
        /\ response.Destinations[d].Id = "awsmre"
        /\ response.Destinations[d].Settings # <<>>
        /\ response.Destinations[d].Settings[1].Url = url

\* C9: a delete_medialive_output_group whose describe_channel returned
\* issues update_channel iff the channel is IDLE and has an 'awsmre'
\* destination whose first Url is the one built from this call's arguments;
\* in every other case the channels are as they were; and the call never
\* raises.
C9_DeleteGuards ==
    \A w \in {1} :
        LET i == inv[w]
            url == mre_url(i.name, i.program, i.profile, i.channel_id)
        IN  (i.pc = "done" /\ i.op = "delete_medialive_output_group") =>
                /\ ~i.raised
                /\ i.response # no_response =>
                       (i.calls.update_channel = 1 <=>
                            /\ i.before[i.channel_id].State = "IDLE"
                            /\ has_mre_destination_with_url(
                                   i.before[i.channel_id], url))
                /\ i.calls.update_channel = 0 => medialive = i.before

\* C9 witness: a delete for event e2 on an IDLE channel that holds the
\* 'awsmre' destination of event e1 has returned without update_channel.
C9_Witness ==
    /\ done_ok(inv[1], "delete_medialive_output_group")
    /\ inv[1].name = "e2"
    /\ inv[1].response # no_response
    /\ inv[1].response.State = "IDLE"
    /\ has_mre_destination_with_url(medialive["1"],
                                    mre_url("e1", "pg", "p1", "1"))
    /\ inv[1].calls.update_channel = 0

\* What C10 says of the channel after a successful add, with the segment
\* length required to be `segment_length(ChunkSize)`.
mre_entries_complete(i, response, chunk_matches(_, _)) ==
    /\ has_mre_destination_with_url(
           response, mre_url(i.name, i.program, i.profile, i.channel_id))
    /\ \E g \in 1..Len(response.EncoderSettings.OutputGroups) :
           LET group == response.EncoderSettings.OutputGroups[g]
           IN  /\ is_mre_output_group(group)
               /\ chunk_matches(
                      group.OutputGroupSettings.HlsGroupSettings.SegmentLength,
                      profile_table[i.profile].ChunkSize)
               /\ chunk_matches(
                      group.OutputGroupSettings.HlsGroupSettings.ProgramDateTimePeriod,
                      profile_table[i.profile].ChunkSize)
    /\ video_descriptions_named(response, "video_awsmre") # <<>>
    /\ mre_output_groups(response) # <<>> =>
           destinations_with_id(response, "awsmre") # <<>>

\* C10 as claimed: after a successful add the channel has the 'awsmre'
\* destination with this call's Url, an MRE output group whose SegmentLength
\* and ProgramDateTimePeriod equal the profile's ChunkSize (a Decimal, here
\* in tenths), and the 'video_awsmre' video description.
C10_EntriesWithChunkSize ==
    \A w \in {1} :
        done_ok(inv[w], "add_or_update_medialive_output_group") =>
            mre_entries_complete(inv[w], medialive[inv[w].channel_id],
                                 LAMBDA seconds, chunk : seconds * 10 = chunk)

\* C10 as amended: SegmentLength and ProgramDateTimePeriod equal
\* int(ChunkSize), the profile's ChunkSize truncated to a whole number.
C10_EntriesWithTruncatedChunkSize ==
    \A w \in {1} :
        done_ok(inv[w], "add_or_update_medialive_output_group") =>
            mre_entries_complete(inv[w], medialive[inv[w].channel_id],
                                 LAMBDA seconds, chunk : seconds = int(chunk))

\* C10 witness: a successful add for event e2 with profile p2 on a channel
\* that held the destination, output group and video description of another
\* event.
C10_Witness ==
    /\ done_ok(inv[1], "add_or_update_medialive_output_group")
    /\ inv[1].name = "e2"
    /\ inv[1].profile = "p2"
    /\ has_mre_destination_with_url(inv[1].before["1"],
                                    mre_url("e1", "pg", "p1", "1"))
    /\ mre_output_groups(inv[1].before["1"]) # <<>>
    /\ video_descriptions_named(inv[1].before["1"], "video_awsmre") # <<>>
    /\ medialive # inv[1].before

\* The audio selectors of the first input attachment of a channel
\* description, none when it has no AudioSelectors.
first_input_audio_selectors(response) ==
    IF "AudioSelectors" \in DOMAIN response.InputAttachments[1].InputSettings
    THEN response.InputAttachments[1].InputSettings.AudioSelectors
    ELSE <<>>

\* C11: after a successful add, audio descriptions the channel had are
\* unchanged; a channel that had none has one per audio selector of its first
\* input attachment, in selector order (none without AudioSelectors); and the
\* AudioDescriptionNames of the MRE output, new or updated, are the names of
\* all audio descriptions of the EncoderSettings, in order.
C11_AudioDescriptions ==
    \A w \in {1} :
        done_ok(inv[w], "add_or_update_medialive_output_group") =>
            LET was == inv[w].before[inv[w].channel_id]
                now == medialive[inv[w].channel_id]
                had == audio_descriptions_of(was.EncoderSettings)
                has == audio_descriptions_of(now.EncoderSettings)
                groups == mre_output_groups(now)
            IN  /\ had # <<>> => has = had
                /\ had = <<>> =>
                       LET selectors == first_input_audio_selectors(was)
                       IN  /\ Len(has) = Len(selectors)
                           /\ \A k \in 1..Len(selectors) :
                                  has[k].AudioSelectorName = selectors[k].Name
                /\ groups # <<>>
                /\ \A g \in 1..Len(groups) :
                       groups[g].Outputs[1].AudioDescriptionNames
                           = [k \in 1..Len(has) |-> has[k].Name]

\* C11 witness: a successful add on a channel that had an MRE output group
\* but no audio description and two audio selectors: two audio descriptions
\* were made and the updated output names both.
C11_Witness ==
    /\ done_ok(inv[1], "add_or_update_medialive_output_group")
    /\ mre_output_groups(inv[1].before["1"]) # <<>>
    /\ audio_descriptions_of(inv[1].before["1"].EncoderSettings) = <<>>
    /\ Len(audio_descriptions_of(medialive["1"].EncoderSettings)) = 2
    /\ Len(mre_output_groups(medialive["1"])[1].Outputs[1].AudioDescriptionNames) = 2

\* C12: on success add_or_update_medialive_output_group returns the channel
\* description as describe_channel returned it, before this call's changes:
\* the returned Destinations and EncoderSettings are those the channel had
\* before the call.
C12_ReturnsConfigBeforeCall ==
    \A w \in {1} :
        done_ok(inv[w], "add_or_update_medialive_output_group") =>
            /\ inv[w].ret.Destinations
                   = inv[w].before[inv[w].channel_id].Destinations
            /\ inv[w].ret.EncoderSettings
                   = inv[w].before[inv[w].channel_id].EncoderSettings

\* The MRE entries of the event whose Url is url: the 'awsmre' destination
\* with that Url, the MRE output group and 'video_awsmre'.
has_mre_entries_of(response, url) ==
    /\ has_mre_destination_with_url(response, url)
    /\ mre_output_groups(response) # <<>>
    /\ video_descriptions_named(response, "video_awsmre") # <<>>

\* Invocation v is an add_or_update that has returned successfully for event
\* A, the channel holds A's MRE entries, and invocation w is a
\* delete_medialive_output_group for a different event.
delete_beside_add(v, w) ==
    /\ done_ok(inv[v], "add_or_update_medialive_output_group")
    /\ inv[w].op = "delete_medialive_output_group"
    /\ <<inv[w].name, inv[w].program>> # <<inv[v].name, inv[v].program>>
    /\ has_mre_entries_of(medialive[inv[v].channel_id],
                          mre_url(inv[v].name, inv[v].program,
                                  inv[v].profile, inv[v].channel_id))

\* C13 as claimed: a delete_medialive_output_group for one event never
\* removes the MRE destination, output group or video description of a
\* different event, also when it runs concurrently with the add_or_update for
\* that event: once the add_or_update for event A has returned successfully,
\* no step of a delete for another event takes A's entries off the channel.
C13_DeleteKeepsOtherEvents ==
    [][\A v \in {1}, w \in {2} :
          (delete_beside_add(v, w) /\ inv'[v] = inv[v]) =>
              has_mre_entries_of(medialive'[inv[v].channel_id],
                                 mre_url(inv[v].name, inv[v].program,
                                         inv[v].profile, inv[v].channel_id))]_vars

\* C13 as amended: a delete_medialive_output_group for one event that calls
\* describe_channel while the channel holds the entries of a different event
\* A issues no update_channel and leaves the channel as it is; A's entries are
\* taken off the channel by a delete for another event only in its
\* update_channel step, when the description it read does not hold A's Url
\* (it was read before A's update_channel) and is written back over A's
\* update.
C13_DeleteKeepsOtherEventsUnlessStale ==
    [][\A v \in {1}, w \in {2} :
          (delete_beside_add(v, w) /\ inv'[v] = inv[v]) =>
              LET url == mre_url(inv[v].name, inv[v].program,
                                 inv[v].profile, inv[v].channel_id)
              IN  /\ inv[w].pc = "describe" =>
                         /\ medialive' = medialive
                         /\ inv'[w].pc = "done"
                         /\ inv'[w].calls.update_channel = 0
                  /\ ~has_mre_entries_of(medialive'[inv[v].channel_id], url) =>
                         /\ inv[w].pc = "update"
                         /\ ~has_mre_destination_with_url(inv[w].response, url)]_vars

\* C13 witness: the add_or_update for e2 has returned successfully, and a
\* delete for e1 that described the channel after e2's update_channel has
\* finished without update_channel; the channel holds e2's entries.
C13_Witness ==
    /\ done_ok(inv[1], "add_or_update_medialive_output_group")
    /\ inv[1].name = "e2" /\ inv[1].channel_id = "1"
    /\ done_ok(inv[2], "delete_medialive_output_group")
    /\ inv[2].name = "e1" /\ inv[2].channel_id = "1"
    /\ inv[2].calls.describe_channel = 1
    /\ inv[2].calls.update_channel = 0
    /\ ~inv[2].aws_failed
    /\ has_mre_destination_with_url(inv[2].response,
           mre_url("e2", "pg", inv[1].profile, "1"))
    /\ has_mre_entries_of(medialive["1"],
           mre_url("e2", "pg", inv[1].profile, "1"))

====
